---- MODULE Spec2Model ----
(***************************************************************************)
(* Checkpointed batch embedding (scripts/re_embed_codesearchnet_robust.py) *)
(* and the shared rate limiter of the parallel pipeline                   *)
(* (scripts/re_embed_codesearchnet_parallel.py).                          *)
(*                                                                         *)
(* Spec          one partition driven by embed_dataset_robust, with the    *)
(*               process killed and started again at any point.           *)
(* SpecRun       one run of embed_dataset_robust that nothing kills.       *)
(* SpecShrink    one run against an endpoint that takes a fixed number of  *)
(*               items per request and no more.                            *)
(* SpecTruncate  adaptive_truncation on one combined text.                 *)
(* SpecParallel  the workers of the parallel pipeline around               *)
(*               rate_limited_sleep, on a discrete clock.                  *)
(* SpecWorkers   the same workers with the clock left out.                 *)
(* SpecLimiter   SpecWorkers with every worker process scheduled fairly.   *)
(***************************************************************************)
EXTENDS Integers, Sequences, FiniteSets, TLC

(***************************************************************************)
(* Bounds of the model and constants of the program.                       *)
(***************************************************************************)
\* largest len(texts) of the partition
MaxTexts == 9
\* initial_batch_size handed to embed_dataset_robust (32 in main())
InitialBatchSize == 8
\* how often the process is killed and started again
MaxRestarts == 1
\* "if batch_size < 4" in embed_dataset_robust
MinBatchSize == 4
\* max_retries=5 of embed_batch_with_retry
MaxRetries == 5
\* how many responses other than a well-formed 200, and failed saves, one
\* behaviour holds
MaxFaults == 5

\* The clock of the parallel pipeline counts ticks of 0.2 s.
\* "if elapsed < 0.6" in rate_limited_sleep: 0.6 s
MinInterval == 3
\* time.sleep(10) before the next attempt in embed_dataset: 10 s
RetrySleep == 50
\* max_retries = 3 in embed_dataset
ParMaxRetries == 3
\* len(texts) of every split of the parallel pipeline
SplitTexts == 3
\* batch_size of embed_dataset (64 in the script)
ParBatchSize == 2
\* how many responses other than a well-formed 200 one behaviour of the parallel
\* pipeline holds
ParMaxFaults == 1
\* the same, where the clock is left out
WorkerMaxFaults == 3

\* The robust pipeline sleeps in tenths of a second.
\* time.sleep(0.6) after a saved batch
RateSleep == 6
\* time.sleep(60) after a 429
ThrottleSleep == 600
\* the combined texts tried are the multiples of LengthStep up to
\* MaxLengthSteps * LengthStep characters, and the lengths around the thresholds
LengthStep == 500
MaxLengthSteps == 130

Min(a, b) == IF a < b THEN a ELSE b

VARIABLES
    \* ---- embed_dataset_robust: what the run is given
    initial_batch_size, \* the parameter initial_batch_size
    token_capacity,     \* the endpoint rejects requests of more items as too large;
                        \* 0: the endpoint answers as it likes
    combined,           \* a combined text f"{docstring}\n\n{code}" of the dataset
    truncated,          \* what adaptive_truncation returned for it, <<>> before
    \* ---- embed_dataset_robust: durable state
    num_texts,          \* len(texts) of the partition
    output_file,        \* the array np.save wrote to output_path (<<>>: no file or empty)
    batches,            \* the batches table of CheckpointManager, by batch_id
    \* ---- embed_dataset_robust: the running process
    pc,
    embeddings,
    batch_size,
    current_index,
    batch_start,
    batch_end,
    status,             \* status['status'] as read by get_batch_status, "none" for no row
    retry,              \* loop variable of embed_batch_with_retry
    batch_embeddings,
    exc,                \* str(e) of the exception in flight
    \* ---- embed_dataset_robust: history
    restarts,           \* kills so far
    faults,             \* responses other than a well-formed 200, and failed saves, so far
    skipped,            \* batch starts this run skipped as completed
    integrity_mismatch, \* at the start of this run: len(file) # records of completed batches
    halvings,           \* reductions of batch_size this run
    exhausted,          \* batch starts whose retries ran out
    last_error,         \* what the last failed attempt of the batch came back with
    waited,             \* tenths of a second slept since the last outbound request of
                        \* this run, capped at ThrottleSleep; -1 before the first
    delays,             \* backoff delays (s) slept in this embed_batch_with_retry
    sent,               \* outbound requests of this embed_batch_with_retry so far
    at_mark             \* <<embeddings, output_file>> as they were at mark_in_progress

rvars == <<initial_batch_size, token_capacity, combined, truncated, num_texts, output_file, batches, pc,
           embeddings, batch_size, current_index, batch_start, batch_end, status, retry,
           batch_embeddings, exc, restarts, faults, skipped, integrity_mismatch, halvings,
           exhausted, last_error, waited, delays, sent, at_mark>>

VARIABLES
    \* ---- parallel pipeline: what main() set up
    start_method,       \* the multiprocessing start method the Pool is built under
    rate_lock,          \* the Lock of main(): "free" or the worker that holds it
    last_request_age,   \* time.time() - last_request_time.value, capped at MinInterval
    files,              \* per language and split: vectors in the .npy file, -1 for no file
    report,             \* <<total_embedded, successes, failures>> of main(), <<>> before
    \* ---- parallel pipeline: one worker process per language
    w_pc,
    w_split,            \* index into SPLITS of process_language
    w_i,                \* loop variable i of embed_dataset
    w_retry,            \* loop variable retry of embed_dataset
    w_sleep_left,       \* ticks left of the time.sleep the worker is in
    w_embeddings,       \* len(embeddings) of embed_dataset
    w_total,            \* total_embedded of process_language
    w_result,           \* the tuple process_language returned, <<>> before
    \* ---- parallel pipeline: history
    since_post,         \* ticks since the last outbound request, capped; -1 before the first
    par_faults          \* responses other than a well-formed 200 so far

pvars == <<start_method, rate_lock, last_request_age, files, report, w_pc, w_split, w_i,
           w_retry, w_sleep_left, w_embeddings, w_total, w_result, since_post,
           par_faults>>

vars == <<rvars, pvars>>

(***************************************************************************)
(* Data.  texts[i] is identified with its offset i; the embedding of the   *)
(* text at offset i is the vector Embed(i).                                *)
(***************************************************************************)
Offsets == 0..MaxTexts
Embed(i) == [of |-> i]
\* a vector that belongs to no text of the batch
Stray == [of |-> -1]

\* batch_id = f"{lang_name}_{split_name}_batch_{batch_start:06d}"
LangName == "python"
SplitName == "train"
BatchId(start) == <<LangName, SplitName, start>>
BatchIds == {BatchId(s) : s \in Offsets}

NoRow == [status |-> "none", retry_count |-> 0, error_message |-> "", batch_index |-> 0,
          batch_size |-> 0]

\* texts[batch_start:batch_end] as offsets
Slice(from, to) == [k \in 1..(IF to > from THEN to - from ELSE 0) |-> from + k - 1]
\* the response of the endpoint to a batch: one vector per text, in order
EmbedAll(batch) == [k \in 1..Len(batch) |-> Embed(batch[k])]

(***************************************************************************)
(* adaptive_truncation.  A text is known by its number of characters; a    *)
(* slice text[:n] keeps the first n of them.                               *)
(***************************************************************************)
Prefix(text, n) == [chars |-> Min(text.chars, n)]

\* every text is cut at 30,000 characters
adaptive_truncation_flat(text) == <<Prefix(text, 30000), 8000>>

\* returns (truncated, tokens)
adaptive_truncation(text) ==
    LET length == text.chars
    IN  IF length > 50000 THEN <<Prefix(text, 15000), 4000>>
        ELSE IF length > 30000 THEN <<Prefix(text, 20000), 5000>>
        ELSE <<Prefix(text, 30000), 8000>>

\* the lengths of combined texts tried
TextLengths ==
    {k * LengthStep : k \in 0..MaxLengthSteps} \cup
    {10000, 14999, 15000, 15001, 19999, 20000, 20001, 29999, 30000, 30001, 40000,
     49999, 50000, 50001, 60000}

(***************************************************************************)
(* CheckpointManager                                                       *)
(***************************************************************************)
\* INSERT OR REPLACE: the row is rebuilt, retry_count and error_message fall
\* back to their defaults
mark_in_progress(id, index, size) ==
    [batches EXCEPT ![id] = [status |-> "in_progress", retry_count |-> 0,
                             error_message |-> "", batch_index |-> index,
                             batch_size |-> size]]

mark_completed(id) ==
    IF batches[id].status = "none" THEN batches
    ELSE [batches EXCEPT ![id].status = "completed"]

\* the UPDATE is lost
mark_failed_lost(tbl, id, msg) == tbl

mark_failed(tbl, id, msg) ==
    IF tbl[id].status = "none" THEN tbl
    ELSE [tbl EXCEPT ![id].status = "failed", ![id].error_message = msg]

increment_retry(id) ==
    IF batches[id].status = "none" THEN batches
    ELSE [batches EXCEPT ![id].retry_count = @ + 1]

get_batch_status(id) == batches[id].status


(***************************************************************************)
(* embed_dataset_robust                                                    *)
(***************************************************************************)
Locals == <<embeddings, batch_size, current_index, batch_start, batch_end, status, retry,
            batch_embeddings, exc>>
Given == <<initial_batch_size, token_capacity, combined, truncated>>
Pacing == <<last_error, waited, delays>>
Calls == <<sent, at_mark>>
Durable == <<Given, num_texts, output_file, batches>>
History == <<restarts, faults, skipped, integrity_mismatch, halvings, exhausted>>

\* records of the source that the completed rows of the table cover
CoveredBy(id) ==
    LET s == id[3]
    IN  {i \in 0..(num_texts - 1) : s <= i /\ i < s + batches[id].batch_size}
CompletedIds == {id \in BatchIds : batches[id].status = "completed"}
FailedIds == {id \in BatchIds : batches[id].status = "failed"}
CompletedRecords == UNION {CoveredBy(id) : id \in CompletedIds}

\* the completed check left out
IsCompletedNever(st) == FALSE
\* "if status and status['status'] == 'completed'"
IsCompleted(st) == st = "completed"

\* lines 308-323: load the existing array and start after it
Start ==
    /\ UNCHANGED pvars
    /\ pc = "start"
    /\ embeddings' = output_file
    /\ batch_size' = initial_batch_size
    /\ current_index' = Len(output_file)
    /\ integrity_mismatch' = (Len(output_file) # Cardinality(CompletedRecords))
    /\ skipped' = {}
    /\ halvings' = 0
    /\ last_error' = ""
    /\ waited' = -1
    /\ delays' = <<>>
    /\ sent' = 0
    /\ at_mark' = <<<<>>, <<>>>>
    /\ pc' = "loop"
    /\ UNCHANGED <<Durable, batch_start, batch_end, status, retry, batch_embeddings, exc,
                   restarts, faults, exhausted>>

\* lines 326-340: the head of the while loop up to the completed check
LoopHead ==
    /\ UNCHANGED <<pvars, Pacing, Calls>>
    /\ pc = "loop"
    /\ IF current_index < num_texts
       THEN LET bs == current_index
                be == Min(current_index + batch_size, num_texts)
                st == get_batch_status(BatchId(bs))
            IN  /\ batch_start' = bs
                /\ batch_end' = be
                /\ status' = st
                /\ IF IsCompleted(st)
                   THEN /\ current_index' = be
                        /\ skipped' = skipped \cup {bs}
                        /\ pc' = "loop"
                   ELSE /\ pc' = "mark"
                        /\ UNCHANGED <<current_index, skipped>>
       ELSE /\ pc' = "final_save"
            /\ UNCHANGED <<batch_start, batch_end, status, current_index, skipped>>
    /\ UNCHANGED <<Durable, embeddings, batch_size, retry, batch_embeddings, exc,
                   restarts, faults, integrity_mismatch, halvings, exhausted>>

\* the attempts already made are carried over
ResumeRetryLoop(r) == r
\* "for retry in range(max_retries)" starts over at 0 in every call
EnterRetryLoop(r) == 0

\* line 344, and the entry of embed_batch_with_retry
MarkInProgress ==
    /\ UNCHANGED pvars
    /\ pc = "mark"
    /\ batches' = mark_in_progress(BatchId(batch_start), batch_start, batch_size)
    /\ retry' = EnterRetryLoop(retry)
    /\ last_error' = ""
    /\ delays' = <<>>
    /\ sent' = 0
    /\ at_mark' = <<embeddings, output_file>>
    /\ UNCHANGED waited
    /\ pc' = "post"
    /\ UNCHANGED <<Given, num_texts, output_file, embeddings, batch_size, current_index,
                   batch_start, batch_end, status, batch_embeddings, exc, History>>

\* the delay doubles
BackoffDelayDoubling(r) == 10 * 2^(r - 1)
\* "delay = 10 * (3 ** (retry - 1))", in seconds
BackoffDelay(r) == 10 * 3^(r - 1)

\* one more round is allowed after the last one
RetriesLeftOneMore(r) == r <= MaxRetries
\* "for retry in range(max_retries)" has a round left
RetriesLeft(r) == r < MaxRetries

\* lines 188-195 for retry > 0: count the retry and sleep the backoff delay
Backoff ==
    /\ UNCHANGED <<pvars, Calls>>
    /\ pc = "attempt"
    /\ RetriesLeft(retry)
    /\ batches' = increment_retry(BatchId(batch_start))
    /\ delays' = Append(delays, BackoffDelay(retry))
    /\ waited' = Min(waited + 10 * BackoffDelay(retry), ThrottleSleep)
    /\ UNCHANGED last_error
    /\ pc' = "post"
    /\ UNCHANGED <<Given, num_texts, output_file, Locals, History>>

\* lines 259-262: the for loop ran out
Exhausted ==
    /\ UNCHANGED <<pvars, Pacing, Calls>>
    /\ pc = "attempt"
    /\ ~RetriesLeft(retry)
    /\ batches' = mark_failed(batches, BatchId(batch_start), "Failed after 5 retries")
    /\ exc' = "Failed after 5 retries"
    /\ exhausted' = exhausted \cup {batch_start}
    /\ pc' = "on_exception"
    /\ UNCHANGED <<Given, num_texts, output_file, embeddings, batch_size, current_index,
                   batch_start, batch_end, status, retry, batch_embeddings, restarts,
                   faults, skipped, integrity_mismatch, halvings>>

\* what requests.post can come back with
Transient == {"400", "429", "503", "other", "timeout", "connection"}
Responses == {"ok", "mismatch", "token_limit"} \cup Transient

\* a 200 whose data does not hold one vector per text
Mismatched(batch) ==
    {EmbedAll(batch) \o <<Stray>>} \cup
    (IF Len(batch) > 0 THEN {SubSeq(EmbedAll(batch), 1, Len(batch) - 1)} ELSE {})

\* the minute after a 429 is left out
ThrottleWaitNone(r) == 0
\* "time.sleep(60)" after a 429, in tenths of a second; no sleep after
\* any other response
ThrottleWait(r) == IF r = "429" THEN ThrottleSleep ELSE 0

\* the failed attempt is not counted
ContinueSameRound(r) == r
\* "continue": the next round of "for retry in range(max_retries)"
Continue(r) == r + 1

\* lines 197-257: one request and the classification of its response
Post ==
    /\ UNCHANGED <<pvars, at_mark>>
    /\ pc = "post"
    /\ token_capacity = 0
    /\ sent' = sent + 1
    /\ \E r \in Responses :
        /\ r # "ok" => faults < MaxFaults
        /\ faults' = (IF r = "ok" THEN faults ELSE faults + 1)
        /\ last_error' = (IF r \in Transient THEN r ELSE "")
        /\ waited' = ThrottleWait(r)
        /\ CASE r = "ok" ->
                  /\ batch_embeddings' = EmbedAll(Slice(batch_start, batch_end))
                  /\ pc' = "validate"
                  /\ UNCHANGED <<retry, exc>>
             [] r = "mismatch" ->
                  /\ batch_embeddings' \in Mismatched(Slice(batch_start, batch_end))
                  /\ pc' = "validate"
                  /\ UNCHANGED <<retry, exc>>
             [] r = "token_limit" ->
                  /\ exc' = "Token limit exceeded"
                  /\ pc' = "on_value_error"
                  /\ UNCHANGED <<retry, batch_embeddings>>
             [] r \in Transient ->
                  /\ retry' = Continue(retry)
                  /\ pc' = "attempt"
                  /\ UNCHANGED <<exc, batch_embeddings>>
    /\ UNCHANGED <<Durable, embeddings, batch_size, current_index, batch_start, batch_end,
                   status, restarts, skipped, integrity_mismatch, halvings, exhausted,
                   delays>>

\* lines 197-216 against an endpoint that takes token_capacity items and no
\* more: a 400 that names the token limit above it, a well-formed 200 up to it
PostSized ==
    /\ UNCHANGED pvars
    /\ pc = "post"
    /\ token_capacity > 0
    /\ waited' = 0
    /\ sent' = sent + 1
    /\ UNCHANGED <<last_error, delays, at_mark>>
    /\ IF batch_end - batch_start > token_capacity
       THEN /\ exc' = "Token limit exceeded"
            /\ pc' = "on_value_error"
            /\ UNCHANGED batch_embeddings
       ELSE /\ batch_embeddings' = EmbedAll(Slice(batch_start, batch_end))
            /\ pc' = "validate"
            /\ UNCHANGED exc
    /\ UNCHANGED <<Durable, embeddings, batch_size, current_index, batch_start, batch_end,
                   status, retry, History>>

\* the count check left out
CountUnchecked(got, expected) == TRUE
\* "if len(batch_embeddings) != len(batch)" does not raise
CountMatches(got, expected) == got = expected

\* lines 351-353
Validate ==
    /\ UNCHANGED <<pvars, Pacing, Calls>>
    /\ pc = "validate"
    /\ IF ~CountMatches(Len(batch_embeddings), batch_end - batch_start)
       THEN /\ exc' = "Expected n embeddings, got m"
            /\ pc' = "on_value_error"
       ELSE /\ pc' = "complete"
            /\ UNCHANGED exc
    /\ UNCHANGED <<Durable, embeddings, batch_size, current_index, batch_start, batch_end,
                   status, retry, batch_embeddings, History>>

\* lines 355-357: extend the list in memory, then mark_completed
Complete ==
    /\ UNCHANGED <<pvars, Pacing, Calls>>
    /\ pc = "complete"
    /\ embeddings' = embeddings \o batch_embeddings
    /\ batches' = mark_completed(BatchId(batch_start))
    /\ pc' = "save"
    /\ UNCHANGED <<Given, num_texts, output_file, batch_size, current_index, batch_start,
                   batch_end, status, retry, batch_embeddings, exc, History>>

\* lines 359-368: np.save, then advance
Save ==
    /\ UNCHANGED pvars
    /\ pc = "save"
    /\ output_file' = embeddings
    /\ current_index' = batch_end
    /\ waited' = Min(waited + RateSleep, ThrottleSleep)
    /\ pc' = "loop"
    /\ UNCHANGED <<last_error, delays, Calls>>
    /\ UNCHANGED <<Given, num_texts, batches, embeddings, batch_size, batch_start, batch_end,
                   status, retry, batch_embeddings, exc, History>>

\* np.save raises (the disk is full, the path is gone): "except Exception" takes it
SaveFails ==
    /\ UNCHANGED <<pvars, Pacing, Calls>>
    /\ pc = "save"
    /\ faults < MaxFaults
    /\ exc' = "OSError"
    /\ faults' = faults + 1
    /\ pc' = "on_exception"
    /\ UNCHANGED <<Durable, embeddings, batch_size, current_index, batch_start, batch_end,
                   status, retry, batch_embeddings, restarts, skipped, integrity_mismatch,
                   halvings, exhausted>>

\* one is taken off instead
HalveByOne(n) == n - 1
\* "batch_size = batch_size // 2"
Halve(n) == n \div 2

\* the floor itself is turned down as well
AtOrBelowFloor(n) == n <= MinBatchSize
\* "if batch_size < 4"
BelowFloor(n) == n < MinBatchSize

\* lines 370-384: "except ValueError".  A raise inside this handler is not
\* caught by the "except Exception" clause of the same try: it leaves the function.
OnValueError ==
    /\ UNCHANGED <<pvars, Pacing, Calls>>
    /\ pc = "on_value_error"
    /\ IF exc = "Token limit exceeded"
       THEN LET half == Halve(batch_size)
            IN  /\ batch_size' = half
                /\ halvings' = halvings + 1
                /\ IF BelowFloor(half)
                   THEN /\ batches' = mark_failed(batches, BatchId(batch_start),
                                                  "Batch size reduction failed")
                        /\ current_index' = batch_end
                   ELSE UNCHANGED <<batches, current_index>>
                /\ pc' = "loop"
       ELSE /\ pc' = "raised"
            /\ UNCHANGED <<batches, batch_size, current_index, halvings>>
    /\ UNCHANGED <<Given, num_texts, output_file, embeddings, batch_start, batch_end, status,
                   retry, batch_embeddings, exc, restarts, faults, skipped,
                   integrity_mismatch, exhausted>>

\* the batch is tried again
SkipBatchStay(bs, be) == bs
\* "current_index = batch_end  # Skip this batch"
SkipBatch(bs, be) == be

\* lines 386-391: "except Exception"
OnException ==
    /\ UNCHANGED <<pvars, Calls>>
    /\ pc = "on_exception"
    /\ batches' = mark_failed(batches, BatchId(batch_start), exc)
    /\ current_index' = SkipBatch(batch_start, batch_end)
    /\ last_error' = ""
    /\ pc' = "loop"
    /\ UNCHANGED <<waited, delays>>
    /\ UNCHANGED <<Given, num_texts, output_file, embeddings, batch_size, batch_start, batch_end,
                   status, retry, batch_embeddings, exc, History>>

\* lines 393-401: the final save and the return
FinalSave ==
    /\ UNCHANGED <<pvars, Pacing, Calls>>
    /\ pc = "final_save"
    /\ output_file' = embeddings
    /\ pc' = "done"
    /\ UNCHANGED <<Given, num_texts, batches, Locals, History>>

\* the process is killed (or has ended) and main() is run again: what is in
\* memory is gone, the table and the file stay
Restart ==
    /\ UNCHANGED pvars
    /\ pc # "start"
    /\ restarts < MaxRestarts
    /\ restarts' = restarts + 1
    /\ pc' = "start"
    /\ embeddings' = <<>>
    /\ batch_size' = initial_batch_size
    /\ current_index' = 0
    /\ batch_start' = 0
    /\ batch_end' = 0
    /\ status' = "none"
    /\ retry' = 0
    /\ batch_embeddings' = <<>>
    /\ exc' = ""
    /\ halvings' = 0
    /\ last_error' = ""
    /\ waited' = -1
    /\ delays' = <<>>
    /\ sent' = 0
    /\ at_mark' = <<<<>>, <<>>>>
    /\ UNCHANGED <<Durable, faults, skipped, integrity_mismatch, exhausted>>

\* what every specification of embed_dataset_robust starts from, but for
\* what the run is given
RFresh ==
    /\ output_file = <<>>
    /\ batches = [id \in BatchIds |-> NoRow]
    /\ pc = "start"
    /\ embeddings = <<>>
    /\ current_index = 0
    /\ batch_start = 0
    /\ batch_end = 0
    /\ status = "none"
    /\ retry = 0
    /\ batch_embeddings = <<>>
    /\ exc = ""
    /\ restarts = 0
    /\ faults = 0
    /\ skipped = {}
    /\ integrity_mismatch = FALSE
    /\ halvings = 0
    /\ exhausted = {}
    /\ last_error = ""
    /\ waited = -1
    /\ delays = <<>>
    /\ sent = 0
    /\ at_mark = <<<<>>, <<>>>>

\* no text is being prepared
NoText ==
    /\ combined = [chars |-> 0]
    /\ truncated = <<>>

RInit ==
    /\ num_texts \in 1..MaxTexts
    /\ initial_batch_size = InitialBatchSize
    /\ token_capacity = 0
    /\ NoText
    /\ batch_size = InitialBatchSize
    /\ RFresh

(***************************************************************************)
(* The parallel pipeline: main(), process_language, embed_dataset and      *)
(* rate_limited_sleep.  One worker process per language.                   *)
(***************************************************************************)
Languages == {"python", "javascript"}
SPLITS == <<"train", "validation">>

\* The module sets rate_lock = None and last_request_time = None; main() binds
\* them in the parent.  A forked worker inherits the parent's globals; a spawned
\* worker imports the module again and main() does not run in it.
WorkerRateLock(w) == IF start_method = "fork" THEN "shared" ELSE "None"

\* the with block entered without waiting for the lock
AcquireUnguarded(w) == TRUE
\* "with rate_lock:" can be entered
CanAcquire(w) == rate_lock = "free"

WorkerLocals == <<w_split, w_i, w_retry, w_sleep_left, w_embeddings, w_total, w_result>>
Posts == <<since_post, par_faults>>

\* lines 140-167 after a failed attempt: sleep 10 s and go round the retry
\* loop, or raise on the last attempt; process_language turns what is raised
\* into (lang_name, 0, False)
OnError(w) ==
    IF w_retry[w] < ParMaxRetries - 1
    THEN /\ w_sleep_left' = [w_sleep_left EXCEPT ![w] = RetrySleep]
         /\ w_pc' = [w_pc EXCEPT ![w] = "retry_sleep"]
         /\ UNCHANGED w_result
    ELSE /\ w_result' = [w_result EXCEPT ![w] = <<w, 0, FALSE>>]
         /\ w_pc' = [w_pc EXCEPT ![w] = "returned"]
         /\ UNCHANGED w_sleep_left

\* process_language lines 200-212: the next split, or the return
EnterSplit(w) ==
    /\ UNCHANGED rvars
    /\ w_pc[w] = "split"
    /\ IF w_split[w] > Len(SPLITS)
       THEN /\ w_result' = [w_result EXCEPT ![w] = <<w, w_total[w], TRUE>>]
            /\ w_pc' = [w_pc EXCEPT ![w] = "returned"]
            /\ UNCHANGED <<w_split, w_i, w_retry, w_embeddings>>
       ELSE IF files[w][w_split[w]] # -1
       THEN /\ w_split' = [w_split EXCEPT ![w] = @ + 1]
            /\ UNCHANGED <<w_pc, w_result, w_i, w_retry, w_embeddings>>
       ELSE /\ w_i' = [w_i EXCEPT ![w] = 0]
            /\ w_retry' = [w_retry EXCEPT ![w] = 0]
            /\ w_embeddings' = [w_embeddings EXCEPT ![w] = 0]
            /\ w_pc' = [w_pc EXCEPT ![w] = IF SplitTexts > 0 THEN "rls_enter" ELSE "save"]
            /\ UNCHANGED <<w_split, w_result>>
    /\ UNCHANGED <<start_method, rate_lock, last_request_age, files, report, w_sleep_left,
                   w_total, Posts>>

\* rate_limited_sleep line 61 on the lock of main()
RlsAcquire(w) ==
    /\ UNCHANGED rvars
    /\ w_pc[w] = "rls_enter"
    /\ WorkerRateLock(w) = "shared"
    /\ CanAcquire(w)
    /\ rate_lock' = w
    /\ w_pc' = [w_pc EXCEPT ![w] = "rls_read"]
    /\ UNCHANGED <<start_method, last_request_age, files, report, WorkerLocals, Posts>>

\* rate_limited_sleep line 61 on None: "with None" raises, "except Exception"
\* of embed_dataset takes it
RlsRaise(w) ==
    /\ UNCHANGED rvars
    /\ w_pc[w] = "rls_enter"
    /\ WorkerRateLock(w) = "None"
    /\ OnError(w)
    /\ UNCHANGED <<start_method, rate_lock, last_request_age, files, report, w_split, w_i,
                   w_retry, w_embeddings, w_total, Posts>>

\* the sleep is left out
SleepNone(elapsed) == 0
\* "if elapsed < 0.6: sleep_time = 0.6 - elapsed; time.sleep(sleep_time)"
SleepFor(elapsed) == IF elapsed < MinInterval THEN MinInterval - elapsed ELSE 0

\* rate_limited_sleep lines 62-68: read the clock, start the sleep
RlsRead(w) ==
    /\ UNCHANGED rvars
    /\ w_pc[w] = "rls_read"
    /\ LET elapsed == last_request_age
       IN  w_sleep_left' = [w_sleep_left EXCEPT ![w] = SleepFor(elapsed)]
    /\ w_pc' = [w_pc EXCEPT ![w] = "rls_sleep"]
    /\ UNCHANGED <<start_method, rate_lock, last_request_age, files, report, w_split, w_i,
                   w_retry, w_embeddings, w_total, w_result, Posts>>

\* the lock is kept when the with block is left
ExitWithHeld(w) == rate_lock
\* the end of "with rate_lock:": the holder releases the lock
ExitWith(w) == IF rate_lock = w THEN "free" ELSE rate_lock

\* rate_limited_sleep line 70 and the end of the with block
RlsWrite(w) ==
    /\ UNCHANGED rvars
    /\ w_pc[w] = "rls_sleep"
    /\ w_sleep_left[w] = 0
    /\ last_request_age' = 0
    /\ rate_lock' = ExitWith(w)
    /\ w_pc' = [w_pc EXCEPT ![w] = "post"]
    /\ UNCHANGED <<start_method, files, report, WorkerLocals, Posts>>

BatchLen(i) == Min(i + ParBatchSize, SplitTexts) - i

\* embed_dataset lines 126-167: the request and what comes back
ParResponses == {"ok", "mismatch", "non200", "timeout", "error"}
ParPostWithin(w, budget) ==
    /\ UNCHANGED rvars
    /\ w_pc[w] = "post"
    /\ since_post' = 0
    /\ \E r \in ParResponses :
        /\ r # "ok" => par_faults < budget
        /\ par_faults' = IF r = "ok" THEN par_faults ELSE par_faults + 1
        /\ IF r \in {"ok", "mismatch"}
           THEN /\ \E n \in (IF r = "ok" THEN {BatchLen(w_i[w])}
                             ELSE {BatchLen(w_i[w]) - 1, BatchLen(w_i[w]) + 1}) :
                       w_embeddings' = [w_embeddings EXCEPT ![w] = @ + n]
                /\ w_i' = [w_i EXCEPT ![w] = @ + ParBatchSize]
                /\ w_retry' = [w_retry EXCEPT ![w] = 0]
                /\ w_pc' = [w_pc EXCEPT ![w] = IF w_i[w] + ParBatchSize < SplitTexts
                                               THEN "rls_enter" ELSE "save"]
                /\ UNCHANGED <<w_sleep_left, w_result>>
           ELSE /\ OnError(w)
                /\ UNCHANGED <<w_embeddings, w_i, w_retry>>
    /\ UNCHANGED <<start_method, rate_lock, last_request_age, files, report, w_split,
                   w_total>>

ParPost(w) == ParPostWithin(w, ParMaxFaults)
WorkerPost(w) == ParPostWithin(w, WorkerMaxFaults)

\* the 10 s are over: the next round of "for retry in range(max_retries)"
RetryWake(w) ==
    /\ UNCHANGED rvars
    /\ w_pc[w] = "retry_sleep"
    /\ w_sleep_left[w] = 0
    /\ w_retry' = [w_retry EXCEPT ![w] = @ + 1]
    /\ w_pc' = [w_pc EXCEPT ![w] = "rls_enter"]
    /\ UNCHANGED <<start_method, rate_lock, last_request_age, files, report, w_split, w_i,
                   w_sleep_left, w_embeddings, w_total, w_result, Posts>>

\* embed_dataset lines 169-176 and process_language line 215
ParSave(w) ==
    /\ UNCHANGED rvars
    /\ w_pc[w] = "save"
    /\ files' = [files EXCEPT ![w][w_split[w]] = w_embeddings[w]]
    /\ w_total' = [w_total EXCEPT ![w] = @ + w_embeddings[w]]
    /\ w_split' = [w_split EXCEPT ![w] = @ + 1]
    /\ w_pc' = [w_pc EXCEPT ![w] = "split"]
    /\ UNCHANGED <<start_method, rate_lock, last_request_age, report, w_i, w_retry,
                   w_sleep_left, w_embeddings, w_result, Posts>>

RECURSIVE SumCounts(_)
SumCounts(ws) ==
    IF ws = {} THEN 0
    ELSE LET w == CHOOSE x \in ws : TRUE
         IN  w_result[w][2] + SumCounts(ws \ {w})

\* only the first language's result is kept
LaunchedFirst == {"python"}
\* main() lines 313-316: "results" holds one AsyncResult per language
Launched == Languages

\* main() lines 318-333: join the pool and add up the tuples
MainCollect ==
    /\ UNCHANGED rvars
    /\ report = <<>>
    /\ \A w \in Languages : w_pc[w] = "returned"
    /\ report' = <<SumCounts(Launched),
                    {w \in Launched : w_result[w][3]},
                    {w \in Launched : ~w_result[w][3]}>>
    /\ UNCHANGED <<start_method, rate_lock, last_request_age, files, w_pc, WorkerLocals,
                   Posts>>

\* 0.2 s pass
Tick ==
    /\ UNCHANGED rvars
    /\ last_request_age' = Min(last_request_age + 1, MinInterval)
    /\ since_post' = IF since_post = -1 THEN -1 ELSE Min(since_post + 1, MinInterval)
    /\ w_sleep_left' = [w \in Languages |->
                           IF w_sleep_left[w] > 0 THEN w_sleep_left[w] - 1 ELSE 0]
    /\ UNCHANGED <<start_method, rate_lock, files, report, w_pc, w_split, w_i, w_retry,
                   w_embeddings, w_total, w_result, par_faults>>

\* a time.sleep of worker w is over (where the clock is left out)
Wake(w) ==
    /\ UNCHANGED rvars
    /\ w_sleep_left[w] > 0
    /\ w_sleep_left' = [w_sleep_left EXCEPT ![w] = 0]
    /\ UNCHANGED <<start_method, rate_lock, last_request_age, files, report, w_pc, w_split,
                   w_i, w_retry, w_embeddings, w_total, w_result, Posts>>

\* main() has built the lock and the timestamp and handed one process_language
\* to the pool per language.  "spawn" is what the script sets before main();
\* "fork" is the platform default that holds when main() is called without it.
PStart ==
    /\ rate_lock = "free"
    /\ last_request_age = 0
    /\ files = [w \in Languages |-> [k \in 1..Len(SPLITS) |-> -1]]
    /\ report = <<>>
    /\ w_pc = [w \in Languages |-> "split"]
    /\ w_split = [w \in Languages |-> 1]
    /\ w_i = [w \in Languages |-> 0]
    /\ w_retry = [w \in Languages |-> 0]
    /\ w_sleep_left = [w \in Languages |-> 0]
    /\ w_embeddings = [w \in Languages |-> 0]
    /\ w_total = [w \in Languages |-> 0]
    /\ w_result = [w \in Languages |-> <<>>]
    /\ since_post = -1
    /\ par_faults = 0

\* the other pipeline is not running
PIdle == start_method = "spawn" /\ PStart
RIdle == RInit /\ num_texts = 1

PInit ==
    /\ start_method \in {"spawn", "fork"}
    /\ PStart
    /\ RIdle

PNext ==
    \/ \E w \in Languages :
        \/ EnterSplit(w)
        \/ RlsAcquire(w)
        \/ RlsRaise(w)
        \/ RlsRead(w)
        \/ RlsWrite(w)
        \/ ParPost(w)
        \/ RetryWake(w)
        \/ ParSave(w)
    \/ MainCollect
    \/ Tick

Init == RInit /\ PIdle

Next ==
    \/ Start
    \/ LoopHead
    \/ MarkInProgress
    \/ Backoff
    \/ Exhausted
    \/ Post
    \/ Validate
    \/ Complete
    \/ Save
    \/ SaveFails
    \/ OnValueError
    \/ OnException
    \/ FinalSave
    \/ Restart

Spec == Init /\ [][Next]_vars

\* one run of embed_dataset_robust that nothing kills; the process keeps
\* running while it has a step to take
RunNext ==
    \/ Start
    \/ LoopHead
    \/ MarkInProgress
    \/ Backoff
    \/ Exhausted
    \/ Post
    \/ Validate
    \/ Complete
    \/ Save
    \/ SaveFails
    \/ OnValueError
    \/ OnException
    \/ FinalSave

SpecRun == Init /\ [][RunNext]_vars /\ WF_vars(RunNext)

\* one run of embed_dataset_robust, at any initial_batch_size, against an
\* endpoint that takes token_capacity items and no more
ShrinkInit ==
    /\ num_texts \in 1..MaxTexts
    /\ initial_batch_size \in 1..InitialBatchSize
    /\ token_capacity \in 1..InitialBatchSize
    /\ NoText
    /\ batch_size = initial_batch_size
    /\ RFresh
    /\ PIdle

ShrinkNext ==
    \/ Start
    \/ LoopHead
    \/ MarkInProgress
    \/ PostSized
    \/ Validate
    \/ Complete
    \/ Save
    \/ OnValueError
    \/ FinalSave

SpecShrink == ShrinkInit /\ [][ShrinkNext]_vars

\* lines 292-306 for one item of the dataset
Truncate ==
    /\ truncated = <<>>
    /\ truncated' = adaptive_truncation(combined)
    /\ UNCHANGED <<initial_batch_size, token_capacity, combined, num_texts, output_file,
                   batches, pc, Locals, History, Pacing, Calls, pvars>>

\* the preparation of one text, of any of the lengths tried
TruncateInit ==
    /\ combined \in {[chars |-> n] : n \in TextLengths}
    /\ truncated = <<>>
    /\ num_texts = 1
    /\ initial_batch_size = InitialBatchSize
    /\ token_capacity = 0
    /\ batch_size = InitialBatchSize
    /\ RFresh
    /\ PIdle

SpecTruncate == TruncateInit /\ [][Truncate]_vars

SpecParallel == PInit /\ [][PNext]_vars

\* the workers with the clock left out: a sleep ends at any moment, and a
\* worker has the responses to fail a batch for good
WInit ==
    /\ start_method \in {"spawn", "fork"}
    /\ PStart
    /\ RIdle

WNext ==
    \/ \E w \in Languages :
        \/ EnterSplit(w)
        \/ RlsAcquire(w)
        \/ RlsRaise(w)
        \/ RlsRead(w)
        \/ RlsWrite(w)
        \/ WorkerPost(w)
        \/ RetryWake(w)
        \/ ParSave(w)
        \/ Wake(w)
    \/ MainCollect

SpecWorkers == WInit /\ [][WNext]_vars

\* the steps of the worker process of language w
WorkerRun(w) ==
    \/ EnterSplit(w)
    \/ RlsAcquire(w)
    \/ RlsRaise(w)
    \/ RlsRead(w)
    \/ RlsWrite(w)
    \/ WorkerPost(w)
    \/ RetryWake(w)
    \/ ParSave(w)
    \/ Wake(w)

\* the same workers, each of them a process of its own that the operating
\* system keeps running while it has a step to take
SpecLimiter == WInit /\ [][WNext]_vars /\ \A w \in Languages : WF_vars(WorkerRun(w))


(***************************************************************************)
(* Properties of embed_dataset_robust                                      *)
(***************************************************************************)
RECURSIVE SumBatchSize(_)
SumBatchSize(ids) ==
    IF ids = {} THEN 0
    ELSE LET id == CHOOSE x \in ids : TRUE
         IN  batches[id].batch_size + SumBatchSize(ids \ {id})

\* the array of a run that nothing interrupts, against an endpoint that answers
\* every request with a well-formed 200
Uninterrupted == EmbedAll(Slice(0, num_texts))
HasVector(arr, r) == \E k \in 1..Len(arr) : arr[k] = Embed(r)
Aligned(arr) == \A k \in 1..Len(arr) : arr[k] = Embed(k - 1)

\* C1: with every response a well-formed 200 and every save succeeding, a run
\* that is killed and started again ends with the array of the uninterrupted run.
C1_IdempotentResume ==
    (pc = "done" /\ faults = 0) => output_file = Uninterrupted

\* C2: at the end no record has two vectors in the persisted array, and a
\* record without a vector lies in a batch whose row is failed.
C2_NoLostNoDuplicated ==
    pc = "done" =>
        /\ \A j, k \in 1..Len(output_file) : output_file[j] = output_file[k] => j = k
        /\ \A r \in 0..(num_texts - 1) :
               ~HasVector(output_file, r) => \E id \in FailedIds : r \in CoveredBy(id)

\* C3: a row is completed only when the vectors of its batch are in the
\* persisted array.
C3_PersistBeforeComplete ==
    \A id \in CompletedIds : \A r \in CoveredBy(id) : HasVector(output_file, r)

\* C4: whenever a request is about to be sent or retried, the status read for
\* its batch_id at the head of the iteration was not completed.
C4_CompletedNeverSent ==
    pc \in {"mark", "post", "attempt"} => status # "completed"

\* C4 witness: after a restart a completed batch was skipped and the run is
\* sending the batch that follows it.
C4_Witness ==
    /\ pc = "post"
    /\ restarts > 0
    /\ skipped # {}
    /\ \E s \in skipped : batches[BatchId(s)].status = "completed" /\ s < batch_start

\* C5: at startup and between iterations the persisted array is as long as the
\* batch_size values of the completed rows add up to.
C5_PartitionProgress ==
    pc \in {"start", "loop"} => Len(output_file) = SumBatchSize(CompletedIds)

\* C6: the vector at index i of the result array, in memory and persisted, is
\* the embedding of the record at offset i.
C6_OrderPreserved ==
    Aligned(output_file) /\ Aligned(embeddings)

\* C7: a run that starts on an array whose length does not match the completed
\* rows stops before it sends a request or writes the array.
C7_IntegrityCheck ==
    integrity_mismatch => pc \in {"start", "loop", "mark", "raised"}

\* the least k with n * 2^k >= initial: ceil(log2(initial / n)), 0 when n >= initial
CeilLog2Ratio(initial, n) ==
    CHOOSE k \in 0..initial :
        /\ n * 2^k >= initial
        /\ \A j \in 0..(k - 1) : n * 2^j < initial

AllEmbedded == \A r \in 0..(num_texts - 1) : HasVector(output_file, r)

FloorWithinCapacity ==
    \E k \in 0..initial_batch_size :
        /\ MinBatchSize <= initial_batch_size \div 2^k
        /\ initial_batch_size \div 2^k <= token_capacity

C12_Termination == <>(pc = "done" \/ pc = "raised")

\* C13: in a run where the retries of exactly one batch ran out and nothing
\* else went wrong, every record outside that batch has its vector in the
\* final array and the failed rows are that batch's row alone.
C13_PartialFailureIsolation ==
    (pc = "done" /\ Cardinality(exhausted) = 1 /\ faults = MaxRetries) =>
        \A b \in exhausted :
            /\ FailedIds = {BatchId(b)}
            /\ \A r \in 0..(num_texts - 1) :
                   r \notin CoveredBy(BatchId(b)) => HasVector(output_file, r)

\* C13 witness: the first batch ran out of retries and the run went on to
\* embed the batch after it.
C13_Witness ==
    /\ pc = "done"
    /\ exhausted = {0}
    /\ faults = MaxRetries
    /\ num_texts > initial_batch_size
    /\ HasVector(output_file, num_texts - 1)

\* C14: a 200 with the wrong number of vectors never makes an exception leave
\* embed_dataset_robust.
C14_MismatchContained == pc # "raised"

\* C15: what is about to be appended and marked completed holds one vector per
\* text of the batch, and no vector that belongs to no text is in the result
\* array, in memory or persisted.
C15_NoTruncationOrPadding ==
    /\ pc = "complete" => Len(batch_embeddings) = batch_end - batch_start
    /\ \A k \in 1..Len(embeddings) : embeddings[k] # Stray
    /\ \A k \in 1..Len(output_file) : output_file[k] # Stray

\* C15 witness: a response with one vector too many was turned down.
C15_Witness ==
    /\ pc = "on_value_error"
    /\ exc = "Expected n embeddings, got m"
    /\ Len(batch_embeddings) > batch_end - batch_start

\* the messages of the two terminal failures
TerminalMessages == {"Failed after 5 retries", "Batch size reduction failed"}

\* C20: a row that is failed because the retries ran out or the size floor was
\* reached stays failed, in this run and after a restart.
C20_FailedTerminal ==
    [][\A id \in BatchIds :
          (batches[id].status = "failed" /\ batches[id].error_message \in TerminalMessages)
              => batches'[id].status = "failed"]_vars

\* the moves of a row the lifecycle allows
Allowed(from, to) ==
    \/ from = to
    \/ from = "none" /\ to = "in_progress"
    \/ from = "in_progress" /\ to \in {"completed", "failed"}

\* C21: the status of a row moves only from in_progress to completed or to
\* failed, and a completed row stays completed whatever runs after it.
C21_CompletedTerminal ==
    [][\A id \in BatchIds : Allowed(batches[id].status, batches'[id].status)]_vars

\* C22: the retry_count of a row never decreases.
C22_RetryCountMonotonic ==
    [][\A id \in BatchIds : batches'[id].retry_count >= batches[id].retry_count]_vars

\* C23: a text of L characters comes back as its first 15,000 characters if
\* L > 50,000, its first 20,000 if 30,000 < L <= 50,000, and its first
\* min(L, 30,000) otherwise.
C23_TruncationPolicy ==
    truncated # <<>> =>
        LET L == combined.chars
            kept == IF L > 50000 THEN 15000
                    ELSE IF L > 30000 THEN 20000
                    ELSE IF L < 30000 THEN L ELSE 30000
        IN  /\ truncated[1] = [chars |-> kept]
            /\ L = 60000 => truncated[1].chars = 15000
            /\ L = 40000 => truncated[1].chars = 20000
            /\ L = 10000 => truncated[1].chars = 10000

\* C23 witness: a text of exactly 50,000 characters was cut to 20,000.
C23_Witness ==
    /\ combined.chars = 50000
    /\ truncated # <<>>
    /\ truncated[1].chars = 20000

\* C24: when embed_batch_with_retry has given up, the row of the batch is
\* failed and its error_message is what the last failed attempt came back with.
C24_LastErrorRecorded ==
    (pc = "on_exception" /\ batch_start \in exhausted /\ exc = "Failed after 5 retries") =>
        /\ batches[BatchId(batch_start)].status = "failed"
        /\ batches[BatchId(batch_start)].error_message = last_error

\* C25: whenever embed_dataset_robust is about to send a request, it has slept
\* at least the rate-limit interval of 0.6 s since the request before it.
C25_EveryCallRateGated ==
    pc = "post" => (waited = -1 \/ waited >= RateSleep)

\* C27: a batch fails by exhaustion only after the first attempt and
\* max_retries retries, with delays of 10, 30, 90, 270 and 810 s slept before
\* the retries.
C27_RetryBudget ==
    (pc = "on_exception" /\ exc = "Failed after 5 retries") =>
        /\ retry = 1 + MaxRetries
        /\ delays = <<10, 30, 90, 270, 810>>

\* C28: the k-th retry of a batch is sent after a backoff delay of
\* 10 * 3^(k-1) s, one delay per retry, and the first attempt after none.
C28_BackoffFormula ==
    pc = "post" =>
        /\ Len(delays) = retry
        /\ \A k \in 1..Len(delays) : delays[k] = 10 * 3^(k - 1)

\* C28 witness: the fourth retry is about to be sent, after 10, 30, 90 and 270 s.
C28_Witness ==
    /\ pc = "post"
    /\ retry = 4
    /\ delays = <<10, 30, 90, 270>>

\* C29: the call of embed_batch_with_retry that follows a size-exceeded
\* response starts with no attempt used and no backoff slept.
C29_ShrinkKeepsBudget ==
    [][(pc = "mark" /\ exc = "Token limit exceeded" /\ pc' = "post") =>
          (retry' = 0 /\ delays' = <<>>)]_vars

\* C29 witness: the first batch had a failed attempt, then the size-exceeded
\* response, and is about to be sent again at half the size as a first attempt.
C29_Witness ==
    /\ pc = "post"
    /\ retry = 0
    /\ restarts = 0
    /\ current_index = 0
    /\ halvings = 1
    /\ faults = 2
    /\ exhausted = {}
    /\ exc = "Token limit exceeded"

\* C30: on a size-exceeded response batch_size is halved; at 4 or more the
\* offset and the table stay as they are, below 4 the row of the batch is
\* failed and the offset moves to the end of that batch.
C30_ShrinkStep ==
    [][(pc = "on_value_error" /\ exc = "Token limit exceeded" /\ pc' # "start") =>
          /\ pc' = "loop"
          /\ batch_size' = batch_size \div 2
          /\ IF batch_size' >= 4
             THEN current_index' = current_index /\ batches' = batches
             ELSE /\ batches'[BatchId(batch_start)].status = "failed"
                  /\ current_index' = batch_end]_vars

\* C30 witness: a batch that began at offset 0 was failed at the size floor
\* and the loop stands at the end of that batch.
C30_Witness ==
    /\ pc = "loop"
    /\ restarts = 0
    /\ batches[BatchId(0)].status = "failed"
    /\ batches[BatchId(0)].error_message = "Batch size reduction failed"
    /\ current_index = batch_end
    /\ current_index > 0
    /\ batch_size < MinBatchSize

\* C31: a request that follows a 429 of the same call of
\* embed_batch_with_retry is sent at least 60 s after that response, at any
\* round of the retry loop.
C31_ThrottleWait ==
    (pc = "post" /\ last_error = "429") => waited >= ThrottleSleep

\* C31 witness: the first attempt came back with a 429 and the first retry,
\* whose backoff delay is 10 s, is about to be sent.
C31_Witness ==
    /\ pc = "post"
    /\ last_error = "429"
    /\ retry = 1
    /\ delays = <<10>>
    /\ waited = ThrottleSleep

\* the failures that are retried under the plain backoff schedule
Retryable == {"400", "503", "other", "timeout", "connection"}

\* C32: after a 503, a timeout, a connection error, a 400 that names no token
\* limit or another non-200 status, every request of the call so far has used
\* one round of the retry loop; the next request is sent in a round that is
\* left, after the backoff delay of that round; and an exception leaves the
\* call only when all max_retries requests have been made.
C32_RetryableClassification ==
    last_error \in Retryable =>
        /\ pc \in {"attempt", "post", "on_exception"}
        /\ retry = sent
        /\ pc = "post" =>
               /\ retry < MaxRetries
               /\ Len(delays) = retry
               /\ waited >= Min(10 * delays[retry], ThrottleSleep)
        /\ pc = "on_exception" =>
               /\ sent = MaxRetries
               /\ exc = "Failed after 5 retries"

\* C32 witness: the second retry is about to be sent, 30 s after a 503.
C32_Witness ==
    /\ pc = "post"
    /\ last_error = "503"
    /\ retry = 2
    /\ sent = 2
    /\ delays = <<10, 30>>
    /\ waited = 10 * 30

\* C33: in a run that nothing kills, every batch that has a row was marked, and
\* so sent, at a start offset not after the one being sent now; every vector
\* in the result array belongs to a record before the batch that is about to
\* be appended; and the result array is in strictly increasing order of offset.
C33_OffsetOrder ==
    /\ pc = "post" =>
           \A s \in Offsets : batches[BatchId(s)].status # "none" => s <= batch_start
    /\ pc = "complete" =>
           \A k \in 1..Len(embeddings) : embeddings[k].of < batch_start
    /\ \A j, k \in 1..Len(embeddings) : j < k => embeddings[j].of < embeddings[k].of

\* C33 witness: a batch is about to be appended behind an earlier batch and a
\* batch that failed between the two.
C33_Witness ==
    /\ pc = "complete"
    /\ Len(embeddings) > 0
    /\ batch_start > Len(embeddings)
    /\ batch_end > batch_start
    /\ FailedIds # {}

\* C34: right after a completed batch was skipped, the offset has moved on by
\* the number of records that batch covered.
C34_SkipExact ==
    (pc = "loop" /\ status = "completed") =>
        current_index - batch_start = Cardinality(CoveredBy(BatchId(batch_start)))

\* C35: whenever a request is about to be sent, batch_size is at least 4.
C35_BatchSizeFloor ==
    pc = "post" => batch_size >= MinBatchSize

\* C36: the iteration that follows a size-exceeded response without moving the
\* offset builds a batch of fewer items than the one that was turned down.
C36_ShrinkShrinks ==
    [][(/\ pc = "loop"
        /\ exc = "Token limit exceeded"
        /\ current_index = batch_start
        /\ batch_end > batch_start
        /\ pc' = "mark")
          => batch_end' - batch_start' < batch_end - batch_start]_vars

\* C37: when an iteration has ended with the row of its batch failed, the
\* result array in memory and the persisted one are what they were when the
\* batch was marked in_progress.
C37_FailedLeavesResults ==
    (/\ pc = "loop"
     /\ exc # ""
     /\ current_index = batch_end
     /\ batches[BatchId(batch_start)].status = "failed") =>
        /\ embeddings = at_mark[1]
        /\ output_file = at_mark[2]

InLimiter == {w \in Languages : w_pc[w] \in {"rls_read", "rls_sleep"}}
Requests(w) == w_pc[w] = "post" /\ w_pc'[w] # "post"

\* C8: an outbound request of any worker comes at least MinInterval after the
\* outbound request before it.
C8_RateBound ==
    [][(\E w \in Languages : Requests(w)) => (since_post = -1 \/ since_post >= MinInterval)]_vars

\* C9: under the start method the script selects, a worker that enters
\* rate_limited_sleep does so on the lock and the timestamp of main().
C9_OneSharedLimiter ==
    start_method = "spawn" =>
        \A w \in Languages : w_pc[w] = "rls_enter" => WorkerRateLock(w) = "shared"

\* C10: at most one worker is between the read of last_request_time and the
\* write of its new value, and that worker holds the lock.
C10_MutualExclusion ==
    /\ Cardinality(InLimiter) <= 1
    /\ \A w \in InLimiter : rate_lock = w

\* C10 witness: one worker sleeps inside the limiter while another one stands
\* at "with rate_lock".
C10_Witness ==
    \E w, v \in Languages :
        /\ w # v
        /\ w_pc[w] = "rls_sleep" /\ w_sleep_left[w] > 0
        /\ w_pc[v] = "rls_enter" /\ WorkerRateLock(v) = "shared"

\* worker w returns from rate_limited_sleep
Returns(w) == w_pc[w] = "rls_sleep" /\ w_pc'[w] = "post"

\* C26: a return of rate_limited_sleep writes a last_request_time at least
\* MinInterval after the one written before it (last_request_age is the time
\* since that write, so the value written is never an earlier one).
C26_GrantsSpaced ==
    [][\A w \in Languages :
          Returns(w) => (last_request_age >= MinInterval /\ last_request_age' = 0)]_vars

\* C26 witness: a worker is about to return from rate_limited_sleep after a
\* request has been sent on an earlier return.
C26_Witness ==
    \E w \in Languages :
        /\ w_pc[w] = "rls_sleep"
        /\ w_sleep_left[w] = 0
        /\ rate_lock = w
        /\ since_post # -1
        /\ last_request_age >= MinInterval

RECURSIVE SumSeq(_)
SumSeq(q) == IF q = <<>> THEN 0 ELSE (IF Head(q) = -1 THEN 0 ELSE Head(q)) + SumSeq(Tail(q))
RECURSIVE Persisted(_)
\* the vectors in the files the workers ws wrote
Persisted(ws) ==
    IF ws = {} THEN 0
    ELSE LET w == CHOOSE x \in ws : TRUE
         IN  SumSeq(files[w]) + Persisted(ws \ {w})

\* C16: a result file of the parallel pipeline holds exactly one vector per
\* record of its split.
C16_ParNoTruncationOrPadding ==
    \A w \in Languages : \A k \in 1..Len(SPLITS) : files[w][k] \in {-1, SplitTexts}

\* C17: main() collects an outcome tuple from every worker it launched, and the
\* lock is only ever held by a worker that is inside rate_limited_sleep, so a
\* worker that has failed holds nothing another worker waits for.
C17_WorkerIsolation ==
    /\ report # <<>> =>
           /\ \A w \in Languages : w_result[w] # <<>>
           /\ report[2] \cup report[3] = Languages
    /\ \A w \in Languages : rate_lock = w => w \in InLimiter

\* C17 witness: one worker failed for good, another ran through all its
\* splits, and main() has both outcomes.
C17_Witness ==
    /\ report # <<>>
    /\ \E w, v \in Languages :
           /\ ~w_result[w][3]
           /\ w_result[v][3] /\ w_result[v][2] > 0

\* C18: a worker returns only after its loop has gone through every split.
C18_PartitionIsolation ==
    \A w \in Languages : w_pc[w] = "returned" => w_split[w] > Len(SPLITS)

\* C19: the total of the final report is the number of vectors the workers
\* persisted during the run.
C19_ReportTotal ==
    report # <<>> => report[1] = Persisted(Languages)

\* C39: the lock is free whenever no worker is inside rate_limited_sleep, and
\* where the workers share the lock of main(), a worker that calls
\* rate_limited_sleep returns from it and goes on to its request.
C39_LimiterLive ==
    /\ [](InLimiter = {} => rate_lock = "free")
    /\ \A w \in Languages :
           (start_method = "fork" /\ w_pc[w] = "rls_enter") ~> (w_pc[w] = "post")

\* C39 witness: a worker has returned from a later call of rate_limited_sleep
\* while the other one stands at "with rate_lock" and the lock is free.
C39_Witness ==
    /\ start_method = "fork"
    /\ \E w, v \in Languages :
           /\ w # v
           /\ w_pc[w] = "post"
           /\ w_i[w] > 0
           /\ w_pc[v] = "rls_enter"
           /\ rate_lock = "free"

====
